---- MODULE Spec2Model ----
(***************************************************************************)
(* State model of the project/todo tracker: the Project entity             *)
(* (src/src/classes/Project.ts) and the ProjectsManager coordinator        *)
(* (src/unnamed/part_000).                                                 *)
(*                                                                         *)
(* JavaScript values are tagged records [t |-> <typeof-like tag>, v |-> _] *)
(* so that the code's typeof / ?? / truthiness tests can be modelled as    *)
(* the code performs them.  Strings are sequences of one-character         *)
(* strings, so trim() and toLowerCase() are computed, not assumed.         *)
(***************************************************************************)
EXTENDS Integers, Sequences, FiniteSets, TLC

(***************************************************************************)
(* Bounds of the model                                                     *)
(***************************************************************************)
\* longest project list an operation may extend
MaxProjects == 2
\* longest todo sequence addTodo may extend
MaxTodos == 1
\* longest todo sequence addTodo may extend where the order of todos matters
MaxTodoList == 2
\* wall-clock readings 1..MaxClock that "new Date()" may return
MaxClock == 1
\* how many entries of ICON_COLORS the random draw ranges over
MaxRandomIdx == 1
\* size of the pool of identifiers uuidv4() draws from
MaxUuid == 12

(***************************************************************************)
(* Strings                                                                 *)
(***************************************************************************)
UpperChars == <<"A","B","C","D","E","F","G","H","I","J","K","L","M",
                "N","O","P","Q","R","S","T","U","V","W","X","Y","Z">>
LowerChars == <<"a","b","c","d","e","f","g","h","i","j","k","l","m",
                "n","o","p","q","r","s","t","u","v","w","x","y","z">>

\* String.prototype.toLowerCase on one character
ToLowerChar(c) ==
  IF \E i \in 1..Len(UpperChars) : UpperChars[i] = c
  THEN LowerChars[CHOOSE i \in 1..Len(UpperChars) : UpperChars[i] = c]
  ELSE c

\* String.prototype.toLowerCase
ToLowerCase(s) == [i \in 1..Len(s) |-> ToLowerChar(s[i])]

IsSpace(c) == c \in {" ", "\t", "\n"}

RECURSIVE TrimLeft(_)
TrimLeft(s) ==
  IF s = <<>> THEN s
  ELSE IF IsSpace(Head(s)) THEN TrimLeft(Tail(s)) ELSE s

RECURSIVE TrimRight(_)
TrimRight(s) ==
  IF s = <<>> THEN s
  ELSE IF IsSpace(s[Len(s)]) THEN TrimRight(SubSeq(s, 1, Len(s) - 1)) ELSE s

\* String.prototype.trim
Trim(s) == TrimRight(TrimLeft(s))

Digits == <<"0","1","2","3","4","5","6","7","8","9">>
DigitOf(n) == Digits[n + 1]
IsDigit(c) == \E i \in 1..Len(Digits) : Digits[i] = c
ValueOfDigit(c) == (CHOOSE i \in 1..Len(Digits) : Digits[i] = c) - 1

(***************************************************************************)
(* JavaScript values                                                       *)
(***************************************************************************)
Undef == [t |-> "undefined", v |-> 0]
Null == [t |-> "null", v |-> 0]
Str(s) == [t |-> "string", v |-> s]
Num(n) == [t |-> "number", v |-> n]
\* a valid Date object holding the time value ms
DateV(ms) == [t |-> "date", v |-> ms]
\* a Date object whose time value is NaN
InvalidDate == [t |-> "date", v |-> -1]
\* an array; v is the sequence of its elements
Arr(s) == [t |-> "array", v |-> s]

IsString(x) == x.t = "string"
IsNumber(x) == x.t = "number"
IsNullish(x) == x.t \in {"undefined", "null"}
\* a ?? b
Coalesce(a, b) == IF IsNullish(a) THEN b ELSE a
\* ToBoolean(x) for the value shapes of the model
Truthy(x) ==
  CASE IsNullish(x) -> FALSE
    [] IsString(x) -> x.v # <<>>
    [] IsNumber(x) -> x.v # 0
    [] OTHER -> TRUE
\* a || b
OrElse(a, b) == IF Truthy(a) THEN a ELSE b
\* a === b
StrictEq(a, b) == a.t = b.t /\ a.v = b.v

\* Date.prototype.toISOString of a valid Date: the time value in text form
ToISOString(d) == <<"T", DigitOf(d.v)>>
\* new Date(text).getTime(): -1 stands for NaN
ParseTime(s) ==
  IF Len(s) = 2 /\ s[1] = "T" /\ IsDigit(s[2]) THEN ValueOfDigit(s[2]) ELSE -1

(***************************************************************************)
(* Text constants of the source                                            *)
(***************************************************************************)
SPending == <<"p","e","n","d","i","n","g">>
SActive == <<"a","c","t","i","v","e">>
SFinished == <<"f","i","n","i","s","h","e","d">>
SArchitect == <<"a","r","c","h","i","t","e","c","t">>
SEngineer == <<"e","n","g","i","n","e","e","r">>
SDeveloper == <<"d","e","v","e","l","o","p","e","r">>
SDone == <<"d","o","n","e">>
\* ProjectStatus
ProjectStatuses == {SPending, SActive, SFinished}
\* UserRole
UserRoles == {SArchitect, SEngineer, SDeveloper}
\* name and description of the project the constructor of ProjectsManager creates
\* (the description abridged to one word)
DefaultName == <<"D","e","f","a","u","l","t"," ","P","r","o","j","e","c","t">>
DefaultDescription == <<"d","e","f","a","u","l","t">>
\* Project.ICON_COLORS, one letter per palette entry
ICON_COLORS == << <<"c">>, <<"2">>, <<"6">>, <<"1">>, <<"C">>, <<"7">> >>
\* Math.floor(Math.random() * ICON_COLORS.length): the indices the draw ranges over
RandomIdx == 1..MaxRandomIdx
\* new Date(): the readings of the wall clock
Times == 1..MaxClock

(***************************************************************************)
(* uuidv4: an identifier no object of the current state carries            *)
(***************************************************************************)
Uuid(k) == Str(<<"u", DigitOf(k \div 10), DigitOf(k % 10)>>)
HasFresh(used, n) == Cardinality({k \in 1..MaxUuid : Uuid(k) \notin used}) >= n
FreshUuid(used) ==
  Uuid(CHOOSE k \in 1..MaxUuid :
         /\ Uuid(k) \notin used
         /\ \A j \in 1..(k - 1) : Uuid(j) \in used)

(***************************************************************************)
(* Entity model: Project.ts                                                *)
(***************************************************************************)
\* an IProject-like record with every key absent
NoData ==
  [id |-> Undef, name |-> Undef, description |-> Undef, status |-> Undef,
   userRole |-> Undef, finishDate |-> Undef, hasFinishDate |-> FALSE,
   cost |-> Undef, progress |-> Undef, iconBg |-> Undef, todos |-> Undef]

\* a todo-like record with every key absent
NoTodo ==
  [id |-> Undef, title |-> Undef, status |-> Undef,
   createdAt |-> Undef, updatedAt |-> Undef]

\* Project.normalizeDate
normalizeDate(value, now) ==
  IF ~Truthy(value) THEN DateV(now)
  ELSE IF value.t = "date" /\ value.v # -1 THEN value
  ELSE IF IsString(value) /\ ParseTime(value.v) # -1
       THEN DateV(ParseTime(value.v))
  ELSE DateV(now)

\* Project.normalizeTodo
normalizeTodo(t, now, fresh) ==
  [id |-> IF IsString(t.id) /\ Trim(t.id.v) # <<>> THEN t.id ELSE fresh,
   title |-> IF IsString(t.title) THEN Str(Trim(t.title.v)) ELSE Str(<<>>),
   status |-> Coalesce(t.status, Str(SPending)),
   createdAt |-> IF IsString(t.createdAt) THEN t.createdAt
                 ELSE Str(ToISOString(DateV(now))),
   updatedAt |-> IF IsString(t.updatedAt) THEN t.updatedAt
                 ELSE Str(ToISOString(DateV(now)))]

\* data.todos.map((t) => Project.normalizeTodo(t)); each uuidv4() is fresh
RECURSIVE normalizeTodos(_, _, _)
normalizeTodos(ts, now, used) ==
  IF ts = <<>> THEN <<>>
  ELSE LET nt == normalizeTodo(Head(ts), now, FreshUuid(used))
       IN <<nt>> \o normalizeTodos(Tail(ts), now, used \cup {nt.id})

\* (x ?? "").trim() throws a TypeError when x is neither nullish nor a string
TrimThrows(x) == ~IsNullish(x) /\ ~IsString(x)
TrimOrEmpty(x) == Trim(Coalesce(x, Str(<<>>)).v)

\* cleaned.split(/\s+/).filter(Boolean): the words of s, in order
RECURSIVE SplitWords(_, _)
SplitWords(s, word) ==
  IF s = <<>> THEN (IF word = <<>> THEN <<>> ELSE <<word>>)
  ELSE IF IsSpace(Head(s))
       THEN (IF word = <<>> THEN <<>> ELSE <<word>>) \o SplitWords(Tail(s), <<>>)
       ELSE SplitWords(Tail(s), Append(word, Head(s)))

\* initials that are always the first two characters of the trimmed name
getProjectInitialsFirstTwo(projectName) ==
  LET cleaned == Trim(projectName)
  IN IF cleaned = <<>> THEN <<"-", "-">>
     ELSE SubSeq(cleaned, 1, IF Len(cleaned) < 2 THEN Len(cleaned) ELSE 2)

\* Project.getProjectInitials
getProjectInitials(projectName) ==
  LET cleaned == Trim(projectName)
      words == SplitWords(cleaned, <<>>)
  IN IF cleaned = <<>> THEN <<"-", "-">>
     ELSE IF Len(words) >= 2 THEN <<words[1][1], words[2][1]>>
     ELSE SubSeq(cleaned, 1, IF Len(cleaned) < 2 THEN Len(cleaned) ELSE 2)

\* Math.round(progress * 100), the number the card and the panel show as a
\* percentage (progress is a whole number in the model)
Percent(progress) == IF IsNumber(progress) THEN Num(progress.v * 100) ELSE progress

\* the card before syncCardUI has filled it
NoCard ==
  [initials |-> <<>>, name |-> Undef, description |-> Undef, status |-> Undef,
   userRole |-> Undef, cost |-> Undef, progress |-> Undef]

\* what syncCardUI writes into the card of the project
CardOf(p) ==
  [initials |-> getProjectInitials(p.name.v), name |-> p.name,
   description |-> p.description, status |-> p.status, userRole |-> p.userRole,
   cost |-> p.cost, progress |-> Percent(p.progress)]

\* Project.syncCardUI
syncCardUI(p) == [p EXCEPT !.ui = CardOf(p)]

\* the Project constructor throws (name or description not a string)
ConstructThrows(data) == TrimThrows(data.name) \/ TrimThrows(data.description)

\* new Project(data)
Construct(data, now, colorIdx, used) ==
  LET id == Coalesce(data.id, FreshUuid(used))
  IN syncCardUI(
     [id |-> id,
      name |-> Str(TrimOrEmpty(data.name)),
      description |-> Str(TrimOrEmpty(data.description)),
      status |-> data.status,
      userRole |-> data.userRole,
      finishDate |-> normalizeDate(data.finishDate, now),
      cost |-> IF IsNumber(data.cost) THEN data.cost ELSE Num(0),
      progress |-> IF IsNumber(data.progress) THEN data.progress ELSE Num(0),
      iconBg |-> Coalesce(data.iconBg, Str(ICON_COLORS[colorIdx])),
      todos |-> IF data.todos.t = "array"
                THEN normalizeTodos(data.todos.v, now, used \cup {id})
                ELSE <<>>,
      ui |-> NoCard])

\* an update that renormalizes finishDate whether or not the key is present
updateRenormalizesAlways(p, data, now) ==
  syncCardUI([p EXCEPT
     !.name = IF IsString(data.name) THEN Str(Trim(data.name.v)) ELSE @,
     !.description = IF IsString(data.description)
                     THEN Str(Trim(data.description.v)) ELSE @,
     !.status = IF Truthy(data.status) THEN data.status ELSE @,
     !.userRole = IF Truthy(data.userRole) THEN data.userRole ELSE @,
     !.finishDate = normalizeDate(data.finishDate, now),
     !.cost = IF IsNumber(data.cost) THEN data.cost ELSE @,
     !.progress = IF IsNumber(data.progress) THEN data.progress ELSE @,
     !.iconBg = IF IsString(data.iconBg) /\ Trim(data.iconBg.v) # <<>>
                THEN Str(Trim(data.iconBg.v)) ELSE @])

\* Project.update
update(p, data, now) ==
  syncCardUI([p EXCEPT
     !.name = IF IsString(data.name) THEN Str(Trim(data.name.v)) ELSE @,
     !.description = IF IsString(data.description)
                     THEN Str(Trim(data.description.v)) ELSE @,
     !.status = IF Truthy(data.status) THEN data.status ELSE @,
     !.userRole = IF Truthy(data.userRole) THEN data.userRole ELSE @,
     !.finishDate = IF data.hasFinishDate
                    THEN normalizeDate(data.finishDate, now) ELSE @,
     !.cost = IF IsNumber(data.cost) THEN data.cost ELSE @,
     !.progress = IF IsNumber(data.progress) THEN data.progress ELSE @,
     !.iconBg = IF IsString(data.iconBg) /\ Trim(data.iconBg.v) # <<>>
                THEN Str(Trim(data.iconBg.v)) ELSE @])

\* Project.addTodo
addTodo(p, title, status, now, fresh) ==
  [p EXCEPT !.todos = Append(@,
     [id |-> fresh, title |-> Str(Trim(title.v)), status |-> status,
      createdAt |-> Str(ToISOString(DateV(now))),
      updatedAt |-> Str(ToISOString(DateV(now)))])]

\* a lookup that falls back on the first todo when no todo has the id
FindTodoOrFirst(p, id) ==
  IF \E i \in 1..Len(p.todos) : StrictEq(p.todos[i].id, id)
  THEN CHOOSE i \in 1..Len(p.todos) :
         /\ StrictEq(p.todos[i].id, id)
         /\ \A j \in 1..(i - 1) : ~StrictEq(p.todos[j].id, id)
  ELSE IF p.todos # <<>> THEN 1 ELSE 0

\* this.todos.find((t) => t.id === id): index of the first match, 0 if none
FindTodo(p, id) ==
  IF \E i \in 1..Len(p.todos) : StrictEq(p.todos[i].id, id)
  THEN CHOOSE i \in 1..Len(p.todos) :
         /\ StrictEq(p.todos[i].id, id)
         /\ \A j \in 1..(i - 1) : ~StrictEq(p.todos[j].id, id)
  ELSE 0

\* an updateTodo that empties the title when the input carries none
updateTodoClearsAbsent(p, id, data, now) ==
  LET i == FindTodo(p, id)
  IN [p EXCEPT !.todos[i] =
        [@ EXCEPT
           !.title = IF IsString(data.title) THEN Str(Trim(data.title.v))
                     ELSE Str(<<>>),
           !.status = IF Truthy(data.status) THEN data.status ELSE @,
           !.updatedAt = Str(ToISOString(DateV(now)))]]

\* Project.updateTodo on a todo that exists
updateTodo(p, id, data, now) ==
  LET i == FindTodo(p, id)
  IN [p EXCEPT !.todos[i] =
        [@ EXCEPT
           !.title = IF IsString(data.title) THEN Str(Trim(data.title.v)) ELSE @,
           !.status = IF Truthy(data.status) THEN data.status ELSE @,
           !.updatedAt = Str(ToISOString(DateV(now)))]]

\* JSON.parse(JSON.stringify(x)) of one value: a Date becomes its ISO text,
\* an undefined property is dropped and reads back as undefined
JsonValue(x) ==
  IF x.t = "date" THEN Str(ToISOString(x)) ELSE x

JsonTodo(t) ==
  [id |-> JsonValue(t.id), title |-> JsonValue(t.title),
   status |-> JsonValue(t.status), createdAt |-> JsonValue(t.createdAt),
   updatedAt |-> JsonValue(t.updatedAt)]

\* Project.toJSON followed by JSON.stringify / JSON.parse
toJSON(p) ==
  [id |-> JsonValue(p.id),
   name |-> JsonValue(p.name),
   description |-> JsonValue(p.description),
   status |-> JsonValue(p.status),
   userRole |-> JsonValue(p.userRole),
   finishDate |-> Str(ToISOString(p.finishDate)),
   hasFinishDate |-> TRUE,
   cost |-> JsonValue(p.cost),
   progress |-> JsonValue(p.progress),
   iconBg |-> JsonValue(p.iconBg),
   todos |-> Arr([i \in 1..Len(p.todos) |-> JsonTodo(p.todos[i])])]

(***************************************************************************)
(* Collection coordinator: ProjectsManager                                 *)
(***************************************************************************)
VARIABLES
  list,             \* ProjectsManager.list
  activeProjectId,  \* ProjectsManager.activeProjectId
  importQueue,      \* entries the merge loop of an import has still to process
  importBase,       \* list and selection when the running re-import of an export began
  activeCleared,    \* deleting the active project reset the selection, and no
                    \* openDetails has set it since
  lastOp,           \* the operation that ran last and its outcome
  view              \* what the details page shows: the panel and the todo list

vars ==
  <<list, activeProjectId, importQueue, importBase, activeCleared, lastOp, view>>

\* the details page before anything was rendered into it
NoView ==
  [details |-> [name |-> Undef, description |-> Undef, status |-> Undef,
                userRole |-> Undef, cost |-> Undef, finishDate |-> Undef,
                progress |-> Undef],
   todos |-> <<>>]

\* ProjectsManager.renderDetails: the texts written into the panel (every node
\* of the details page is taken to be in the document)
renderDetails(p) ==
  [name |-> p.name, description |-> p.description, status |-> p.status,
   userRole |-> p.userRole, cost |-> p.cost,
   finishDate |-> Str(ToISOString(p.finishDate)),
   progress |-> Percent(p.progress)]

\* ProjectsManager.renderTodos: one item per todo, in order
renderTodos(p) ==
  [j \in 1..Len(p.todos) |->
     [id |-> p.todos[j].id, title |-> p.todos[j].title,
      status |-> p.todos[j].status]]

\* renderDetails(project) followed by renderTodos(project)
Rendered(p) == [details |-> renderDetails(p), todos |-> renderTodos(p)]

\* p.name.trim().toLowerCase()
NormName(s) == ToLowerCase(Trim(s))

\* this.list.find((p) => p.id === id): index of the first match, 0 if none
getProject(l, id) ==
  IF \E i \in 1..Len(l) : StrictEq(l[i].id, id)
  THEN CHOOSE i \in 1..Len(l) :
         /\ StrictEq(l[i].id, id)
         /\ \A j \in 1..(i - 1) : ~StrictEq(l[j].id, id)
  ELSE 0

\* a lookup by name that trims and compares case-sensitively
getProjectByNameExact(l, name) ==
  IF \E i \in 1..Len(l) : Trim(l[i].name.v) = Trim(name)
  THEN CHOOSE i \in 1..Len(l) :
         /\ Trim(l[i].name.v) = Trim(name)
         /\ \A j \in 1..(i - 1) : Trim(l[j].name.v) # Trim(name)
  ELSE 0

\* getProjectByName: index of the first match, 0 if none
getProjectByName(l, name) ==
  IF \E i \in 1..Len(l) : NormName(l[i].name.v) = NormName(name)
  THEN CHOOSE i \in 1..Len(l) :
         /\ NormName(l[i].name.v) = NormName(name)
         /\ \A j \in 1..(i - 1) : NormName(l[j].name.v) # NormName(name)
  ELSE 0

\* getActiveProject: index of the active project, 0 if none
getActiveProject(l, active) ==
  IF ~Truthy(active) THEN 0 ELSE getProject(l, active)

\* every identifier some object of the state carries
UsedIds(l, active) ==
  {l[i].id : i \in 1..Len(l)} \cup {active}
    \cup UNION {{l[i].todos[j].id : j \in 1..Len(l[i].todos)} : i \in 1..Len(l)}

\* the length check of newProject and updateProject
NameTooShort(n) == Len(n) < 5

\* a uniqueness check that compares the names without lower-casing them
NameInUseCaseSensitive(l, n) ==
  \E i \in 1..Len(l) : Trim(l[i].name.v) = n

\* the uniqueness check of newProject
NameInUse(l, n) ==
  \E i \in 1..Len(l) : NormName(l[i].name.v) = ToLowerCase(n)

\* the uniqueness check of updateProject, which skips the project itself
NameInUseByOther(l, idx, n) ==
  \E i \in 1..Len(l) :
    /\ ~StrictEq(l[i].id, l[idx].id)
    /\ NormName(l[i].name.v) = ToLowerCase(n)

\* this.list.filter((p) => p.id !== id)
RECURSIVE FilterOut(_, _)
FilterOut(l, id) ==
  IF l = <<>> THEN <<>>
  ELSE IF StrictEq(Head(l).id, id) THEN FilterOut(Tail(l), id)
  ELSE <<Head(l)>> \o FilterOut(Tail(l), id)

Idle == importQueue = <<>>
NoBase == [set |-> FALSE, list |-> <<>>, active |-> Null]

\* what lastOp records: the operation, its outcome (the error it threw, if
\* any), the index of the project it touched (0: none) and the number of todos
\* that project had before
Outcome(op, res, idx, n) == [op |-> op, res |-> res, idx |-> idx, n |-> n]

\* ProjectsManager.newProject: outcome and resulting list
newProjectResult(l, active, data, now, colorIdx) ==
  IF TrimThrows(data.name) THEN [res |-> "TypeError", list |-> l]
  ELSE LET normalizedName == TrimOrEmpty(data.name)
       IN IF NameTooShort(normalizedName)
          THEN [res |-> "NameTooShort", list |-> l]
          ELSE IF NameInUse(l, normalizedName)
          THEN [res |-> "NameInUse", list |-> l]
          ELSE IF ConstructThrows(data) THEN [res |-> "TypeError", list |-> l]
          ELSE [res |-> "ok",
                list |-> Append(l, Construct([data EXCEPT !.name = Str(normalizedName)],
                                             now, colorIdx, UsedIds(l, active)))]

newProject(data) ==
  /\ Idle
  /\ \E now \in Times, colorIdx \in RandomIdx :
       LET r == newProjectResult(list, activeProjectId, data, now, colorIdx)
       IN /\ r.res = "ok" => Len(list) < MaxProjects
          /\ list' = r.list
          /\ lastOp' = Outcome("newProject", r.res,
                               IF r.res = "ok" THEN Len(r.list) ELSE 0, 0)
  /\ importBase' = NoBase
  /\ UNCHANGED <<activeProjectId, importQueue, activeCleared, view>>

\* a deleteProject that leaves activeProjectId as it is
deleteProjectKeepsSelection(id) ==
  /\ Idle
  /\ IF getProject(list, id) = 0
     THEN /\ lastOp' = Outcome("deleteProject", "noop", 0, 0)
          /\ UNCHANGED <<list, activeProjectId, activeCleared>>
     ELSE /\ list' = FilterOut(list, id)
          /\ activeCleared' = (activeCleared \/ StrictEq(activeProjectId, id))
          /\ UNCHANGED activeProjectId
          /\ lastOp' = Outcome("deleteProject", "ok", getProject(list, id), 0)
  /\ importBase' = NoBase
  /\ UNCHANGED <<importQueue, view>>

\* a deleteProject with the test on the selection inverted
deleteProjectClearsOthers(id) ==
  /\ Idle
  /\ IF getProject(list, id) = 0
     THEN /\ lastOp' = Outcome("deleteProject", "noop", 0, 0)
          /\ UNCHANGED <<list, activeProjectId, activeCleared>>
     ELSE /\ list' = FilterOut(list, id)
          /\ activeCleared' = (activeCleared \/ ~StrictEq(activeProjectId, id))
          /\ activeProjectId' = IF ~StrictEq(activeProjectId, id) THEN Null
                                ELSE activeProjectId
          /\ lastOp' = Outcome("deleteProject", "ok", getProject(list, id), 0)
  /\ importBase' = NoBase
  /\ UNCHANGED <<importQueue, view>>

\* ProjectsManager.deleteProject
deleteProject(id) ==
  /\ Idle
  /\ IF getProject(list, id) = 0
     THEN /\ lastOp' = Outcome("deleteProject", "noop", 0, 0)
          /\ UNCHANGED <<list, activeProjectId, activeCleared>>
     ELSE /\ list' = FilterOut(list, id)
          /\ activeCleared' = (activeCleared \/ StrictEq(activeProjectId, id))
          /\ activeProjectId' = IF StrictEq(activeProjectId, id) THEN Null
                                ELSE activeProjectId
          /\ lastOp' = Outcome("deleteProject",
                               IF StrictEq(activeProjectId, id) THEN "deletedActive"
                               ELSE "ok",
                               getProject(list, id), 0)
  /\ importBase' = NoBase
  /\ UNCHANGED <<importQueue, view>>

\* ProjectsManager.updateProject: outcome and resulting list
updateProjectResult(l, id, data, now) ==
  LET idx == getProject(l, id)
  IN IF idx = 0 THEN [res |-> "noop", list |-> l, idx |-> 0]
     ELSE IF IsString(data.name) /\ NameTooShort(Trim(data.name.v))
     THEN [res |-> "NameTooShort", list |-> l, idx |-> idx]
     ELSE IF IsString(data.name) /\ NameInUseByOther(l, idx, Trim(data.name.v))
     THEN [res |-> "NameInUse", list |-> l, idx |-> idx]
     ELSE [res |-> "ok", list |-> [l EXCEPT ![idx] = update(@, data, now)],
           idx |-> idx]

updateProject(id, data) ==
  /\ Idle
  /\ \E now \in Times :
       LET r == updateProjectResult(list, id, data, now)
       IN /\ list' = r.list
          /\ lastOp' = Outcome("updateProject", r.res, r.idx, 0)
          /\ view' = IF r.res = "ok" /\ StrictEq(activeProjectId, list[r.idx].id)
                     THEN Rendered(r.list[r.idx]) ELSE view
  /\ importBase' = NoBase
  /\ UNCHANGED <<activeProjectId, importQueue, activeCleared>>

\* an openDetails that selects the id it is given, in the list or not
openDetailsAnyId(projectId, hasPages) ==
  /\ Idle
  /\ IF ~hasPages
     THEN /\ lastOp' = Outcome("openDetails", "noop", 0, 0)
          /\ UNCHANGED <<activeProjectId, activeCleared, view>>
     ELSE /\ activeProjectId' = projectId
          /\ activeCleared' = FALSE
          /\ view' = IF getProject(list, projectId) # 0
                     THEN Rendered(list[getProject(list, projectId)]) ELSE view
          /\ lastOp' = Outcome("openDetails", "ok", getProject(list, projectId), 0)
  /\ importBase' = NoBase
  /\ UNCHANGED <<list, importQueue>>

\* ProjectsManager.openDetails; hasPages: both page elements are in the document
openDetails(projectId, hasPages) ==
  /\ Idle
  /\ LET idx == getProject(list, projectId)
     IN IF idx = 0 \/ ~hasPages
        THEN /\ lastOp' = Outcome("openDetails", "noop", 0, 0)
             /\ UNCHANGED <<activeProjectId, activeCleared, view>>
        ELSE /\ activeProjectId' = list[idx].id
             /\ activeCleared' = FALSE
             /\ view' = Rendered(list[idx])
             /\ lastOp' = Outcome("openDetails", "ok", idx, 0)
  /\ importBase' = NoBase
  /\ UNCHANGED <<list, importQueue>>

\* ProjectsManager.addTodoToActiveProject: outcome and resulting list
addTodoResult(l, active, title, status, now) ==
  LET idx == getActiveProject(l, active)
  IN IF idx = 0 THEN [res |-> "noop", list |-> l, idx |-> 0]
     ELSE IF Trim(title.v) = <<>>
     THEN [res |-> "EmptyTitle", list |-> l, idx |-> idx]
     ELSE [res |-> "ok",
           list |-> [l EXCEPT ![idx] =
                       addTodo(@, title, status, now, FreshUuid(UsedIds(l, active)))],
           idx |-> idx]

\* ProjectsManager.addTodoToActiveProject, while the project holds fewer than
\* cap todos
addTodoWithin(title, status, cap) ==
  /\ Idle
  /\ \E now \in Times :
       LET r == addTodoResult(list, activeProjectId, title, status, now)
       IN /\ r.res = "ok" => Len(list[r.idx].todos) < cap
          /\ list' = r.list
          /\ lastOp' = Outcome("addTodoToActiveProject", r.res, r.idx,
                               IF r.idx = 0 THEN 0 ELSE Len(list[r.idx].todos))
          /\ view' = IF r.res = "ok"
                     THEN [view EXCEPT !.todos = renderTodos(r.list[r.idx])]
                     ELSE view
  /\ importBase' = NoBase
  /\ UNCHANGED <<activeProjectId, importQueue, activeCleared>>

addTodoToActiveProject(title, status) == addTodoWithin(title, status, MaxTodos)

\* ProjectsManager.updateTodoInActiveProject: outcome and resulting list
updateTodoResult(l, active, todoId, data, now) ==
  LET idx == getActiveProject(l, active)
  IN IF idx = 0 THEN [res |-> "noop", list |-> l, idx |-> 0]
     ELSE IF FindTodo(l[idx], todoId) = 0
     THEN [res |-> "notFound", list |-> l, idx |-> idx]
     ELSE [res |-> "ok", list |-> [l EXCEPT ![idx] = updateTodo(@, todoId, data, now)],
           idx |-> idx]

updateTodoInActiveProject(todoId, data) ==
  /\ Idle
  /\ \E now \in Times :
       LET r == updateTodoResult(list, activeProjectId, todoId, data, now)
       IN /\ list' = r.list
          /\ lastOp' = Outcome("updateTodoInActiveProject", r.res, r.idx,
                               IF r.idx = 0 THEN 0 ELSE Len(list[r.idx].todos))
          /\ view' = IF r.res = "ok"
                     THEN [view EXCEPT !.todos = renderTodos(r.list[r.idx])]
                     ELSE view
  /\ importBase' = NoBase
  /\ UNCHANGED <<activeProjectId, importQueue, activeCleared>>

(***************************************************************************)
(* Export / import                                                         *)
(***************************************************************************)
\* exportToJSON: the payload, as JSON.parse reads it back
exportToJSON(l) == [i \in 1..Len(l) |-> toJSON(l[i])]

\* the project an import entry is merged into: by id first, else by name
existingById(l, incoming) ==
  IF IsString(incoming.id) THEN getProject(l, incoming.id) ELSE 0

existingByName(l, incoming) ==
  IF TrimOrEmpty(incoming.name) # <<>>
  THEN getProjectByName(l, TrimOrEmpty(incoming.name)) ELSE 0

existingOf(l, incoming) ==
  IF existingById(l, incoming) # 0 THEN existingById(l, incoming)
  ELSE existingByName(l, incoming)

\* the argument of existing.update(...) in the merge loop
mergeData(e, incoming) ==
  [NoData EXCEPT
     !.name = OrElse(Str(TrimOrEmpty(incoming.name)), e.name),
     !.description = Coalesce(incoming.description, e.description),
     !.status = Coalesce(incoming.status, e.status),
     !.userRole = Coalesce(incoming.userRole, e.userRole),
     !.finishDate = Coalesce(incoming.finishDate, e.finishDate),
     !.hasFinishDate = TRUE,
     !.cost = IF IsNumber(incoming.cost) THEN incoming.cost ELSE e.cost,
     !.progress = IF IsNumber(incoming.progress) THEN incoming.progress
                  ELSE e.progress,
     !.iconBg = Coalesce(incoming.iconBg, e.iconBg)]

\* a merge that takes the supplied todos only when there are some
mergeTodosUnlessEmpty(e, incoming) ==
  IF incoming.todos.t = "array" /\ incoming.todos.v # <<>>
  THEN [e EXCEPT !.todos = incoming.todos.v] ELSE e

\* a merge that also takes the id of the entry when it is a string
mergeTodosAndId(e, incoming) ==
  [(IF incoming.todos.t = "array" THEN [e EXCEPT !.todos = incoming.todos.v] ELSE e)
     EXCEPT !.id = IF IsString(incoming.id) THEN incoming.id ELSE @]

\* existing.todos = incoming.todos.map((t) => ({ ...t }))
mergeTodos(e, incoming) ==
  IF incoming.todos.t = "array" THEN [e EXCEPT !.todos = incoming.todos.v] ELSE e

\* a name check that skips an unmatched entry only when it has no name
skipsEntryOnlyUnnamed(incomingName) == incomingName = <<>>

\* the name check that makes the loop skip an unmatched entry
skipsEntry(incomingName) == Len(incomingName) < 5

\* one iteration of the merge loop of importFromJSON
importEntryResult(l, active, incoming, now, colorIdx) ==
  IF TrimThrows(incoming.name) THEN [res |-> "TypeError", list |-> l, idx |-> 0]
  ELSE LET incomingName == TrimOrEmpty(incoming.name)
           existing == existingOf(l, incoming)
       IN IF existing # 0
          THEN [res |-> "updated",
                list |-> [l EXCEPT ![existing] =
                            syncCardUI(
                              mergeTodos(update(@, mergeData(@, incoming), now),
                                         incoming))],
                idx |-> existing]
          ELSE IF skipsEntry(incomingName)
          THEN [res |-> "skipped", list |-> l, idx |-> 0]
          ELSE IF ConstructThrows(incoming)
          THEN [res |-> "TypeError", list |-> l, idx |-> 0]
          ELSE [res |-> "created",
                list |-> Append(l, Construct([incoming EXCEPT !.name = Str(incomingName)],
                                             now, colorIdx, UsedIds(l, active))),
                idx |-> Len(l) + 1]

\* length of the list after the whole batch (no draw changes which branch runs)
RECURSIVE lengthAfter(_, _, _)
lengthAfter(l, active, batch) ==
  IF batch = <<>> THEN Len(l)
  ELSE LET r == importEntryResult(l, active, Head(batch), 1, 1)
       IN IF r.res = "TypeError" THEN Len(l)
          ELSE lengthAfter(r.list, active, Tail(batch))

\* the FileReader load handler, up to the start of the merge loop
importFromJSON(batch) ==
  /\ Idle
  /\ lengthAfter(list, activeProjectId, batch) <= MaxProjects
  /\ importQueue' = batch
  /\ importBase' = NoBase
  /\ lastOp' = Outcome("importFromJSON", "parsed", 0, 0)
  /\ UNCHANGED <<list, activeProjectId, activeCleared, view>>

\* the load handler given the text exportToJSON produced in the current state
importExported ==
  /\ Idle
  /\ importQueue' = exportToJSON(list)
  /\ importBase' = [set |-> TRUE, list |-> list, active |-> activeProjectId]
  /\ lastOp' = Outcome("importFromJSON", "parsed", 0, 0)
  /\ UNCHANGED <<list, activeProjectId, activeCleared, view>>

\* the load handler given text that JSON.parse rejects
importInvalidJSON ==
  /\ Idle
  /\ lastOp' = Outcome("importFromJSON", "ParseError", 0, 0)
  /\ importBase' = NoBase
  /\ UNCHANGED <<list, activeProjectId, importQueue, activeCleared, view>>

\* one iteration of the merge loop
importEntry ==
  /\ ~Idle
  /\ \E now \in Times, colorIdx \in RandomIdx :
       LET r == importEntryResult(list, activeProjectId, Head(importQueue), now, colorIdx)
       IN /\ list' = r.list
          /\ importQueue' = IF r.res = "TypeError" THEN <<>> ELSE Tail(importQueue)
          /\ lastOp' = Outcome("importEntry", r.res, r.idx,
                               IF r.res = "updated" THEN Len(list[r.idx].todos) ELSE 0)
          /\ view' = IF r.res = "updated"
                        /\ StrictEq(activeProjectId, list[r.idx].id)
                     THEN Rendered(r.list[r.idx]) ELSE view
  /\ UNCHANGED <<activeProjectId, importBase, activeCleared>>

\* the constructor of ProjectsManager: the default project, nothing active
Init ==
  /\ \E now \in Times, colorIdx \in RandomIdx :
       list = newProjectResult(<<>>, Null,
                [NoData EXCEPT !.name = Str(DefaultName),
                               !.description = Str(DefaultDescription),
                               !.status = Str(SPending),
                               !.userRole = Str(SArchitect),
                               !.finishDate = DateV(now), !.hasFinishDate = TRUE],
                now, colorIdx).list
  /\ activeProjectId = Null
  /\ importQueue = <<>>
  /\ importBase = NoBase
  /\ activeCleared = FALSE
  /\ lastOp = Outcome("constructor", "ok", 1, 0)
  /\ view = NoView

(***************************************************************************)
(* Inputs the operations are driven with                                   *)
(***************************************************************************)
NAlpha == <<"A","l","p","h","a">>
NAlphaVariant == <<" ","a","L","P","H","A"," ">>
NBravo == <<"B","r","a","v","o">>
NShort == <<"A","B">>
TNotes == <<"n","o","t","e","s">>
TBlank == <<" ">>
\* an identifier a caller or a file supplies
IdX == Str(<<"x">>)
\* an identifier no project or todo carries
IdUnknown == Str(<<"z">>)

BaseData ==
  [NoData EXCEPT !.description = Str(<<>>), !.status = Str(SPending),
                 !.userRole = Str(SArchitect)]

\* identifiers handed to the operations that address a project
ProjectIds == {list[i].id : i \in 1..Len(list)} \cup {IdUnknown}

\* identifiers handed to the operations that address a todo of the active project
TodoIds ==
  UNION {{list[i].todos[j].id : j \in 1..Len(list[i].todos)} : i \in 1..Len(list)}
    \cup {IdUnknown}

\* the entries of an imported file: a template with one of the ids attached
EntriesOf(templates, ids) ==
  {[e EXCEPT !.id = id] : e \in templates,
                          id \in {list[i].id : i \in 1..Len(list)} \cup ids}

(***************************************************************************)
(* Names: creation, renaming and import of projects                        *)
(***************************************************************************)
NamesCreates ==
  { [BaseData EXCEPT !.name = Str(NAlpha)],
    [BaseData EXCEPT !.name = Str(NAlphaVariant), !.id = IdX],
    [BaseData EXCEPT !.name = Str(NBravo), !.id = IdX],
    [BaseData EXCEPT !.name = Str(NShort)],
    BaseData }

NamesUpdates ==
  { [NoData EXCEPT !.name = Str(NBravo), !.description = Str(TNotes)],
    [NoData EXCEPT !.name = Str(NAlphaVariant)],
    [NoData EXCEPT !.name = Str(NShort), !.description = Str(TNotes)] }

NamesTemplates ==
  { [BaseData EXCEPT !.name = Str(NBravo)],
    [BaseData EXCEPT !.name = Str(NShort)] }

NamesNext ==
  \/ \E data \in NamesCreates : newProject(data)
  \/ \E id \in ProjectIds : deleteProject(id)
  \/ \E id \in ProjectIds, data \in NamesUpdates : updateProject(id, data)
  \/ \E id \in ProjectIds, hasPages \in BOOLEAN : openDetails(id, hasPages)
  \/ \E e \in EntriesOf(NamesTemplates, {Undef}) : importFromJSON(<<e>>)
  \/ importInvalidJSON
  \/ importEntry

NamesSpec == Init /\ [][NamesNext]_vars

(***************************************************************************)
(* Import: merging a file into the list, re-importing an export            *)
(***************************************************************************)
IconPadded == <<" ","r"," ">>

ImportTemplates ==
  { [BaseData EXCEPT !.name = Str(NBravo), !.iconBg = Str(IconPadded),
                     !.todos = Arr(<<>>)],
    [BaseData EXCEPT !.name = Str(NShort)],
    [NoData EXCEPT !.todos = Arr(<< [NoTodo EXCEPT !.title = Str(TNotes)] >>)] }

\* a file of three entries: the second is new and has too short a name
ImportBatches ==
  { << [NoData EXCEPT !.name = Str(DefaultName), !.todos = Arr(<<>>)],
       [BaseData EXCEPT !.name = Str(NShort)],
       [BaseData EXCEPT !.name = Str(NBravo), !.iconBg = Str(IconPadded),
                        !.todos = Arr(<<>>)] >> }

ImportFiles ==
  {<<e>> : e \in EntriesOf(ImportTemplates, {Undef})} \cup ImportBatches

ImportNext ==
  \/ \E id \in ProjectIds : deleteProject(id)
  \/ \E id \in ProjectIds, hasPages \in BOOLEAN : openDetails(id, hasPages)
  \/ \E batch \in ImportFiles : importFromJSON(batch)
  \/ importExported
  \/ importInvalidJSON
  \/ importEntry

ImportSpec == Init /\ [][ImportNext]_vars

(***************************************************************************)
(* Todos: the selection and the todos of the active project                *)
(***************************************************************************)
\* the empty string, supplied as the id of a project
IdEmpty == Str(<<>>)

TodoCreates ==
  { [BaseData EXCEPT !.name = Str(NAlpha), !.id = IdEmpty],
    [BaseData EXCEPT !.name = Str(NBravo)] }

TodoTitles == {Str(TNotes), Str(TBlank)}

\* the second is what the todo form submits in edit mode with the title
\* field left empty
TodoUpdates ==
  { [title |-> Str(TBlank), status |-> Undef],
    [title |-> Str(<<>>), status |-> Str(SPending)],
    [title |-> Undef, status |-> Str(SDone)] }

TodoNext ==
  \/ \E data \in TodoCreates : newProject(data)
  \/ \E id \in ProjectIds : deleteProject(id)
  \/ \E id \in ProjectIds, hasPages \in BOOLEAN : openDetails(id, hasPages)
  \/ \E title \in TodoTitles : addTodoToActiveProject(title, Str(SPending))
  \/ \E id \in TodoIds, data \in TodoUpdates : updateTodoInActiveProject(id, data)
  \/ importFromJSON(<< [NoData EXCEPT !.name = Str(DefaultName), !.todos = Arr(<<>>)] >>)
  \/ importEntry

TodoSpec == Init /\ [][TodoNext]_vars

(***************************************************************************)
(* Selection: every operation of the coordinator, around the selection     *)
(***************************************************************************)
SelectionCreates ==
  { [BaseData EXCEPT !.name = Str(NBravo), !.id = IdX] }

SelectionUpdates == { [NoData EXCEPT !.description = Str(TNotes)] }

SelectionTemplates == { [BaseData EXCEPT !.name = Str(NBravo), !.todos = Arr(<<>>)] }

SelectionTodoUpdates == { [title |-> Undef, status |-> Str(SDone)] }

SelectionNext ==
  \/ \E data \in SelectionCreates : newProject(data)
  \/ \E id \in ProjectIds : deleteProject(id)
  \/ \E id \in ProjectIds, data \in SelectionUpdates : updateProject(id, data)
  \/ \E id \in ProjectIds, hasPages \in BOOLEAN : openDetails(id, hasPages)
  \/ addTodoToActiveProject(Str(TNotes), Str(SPending))
  \/ \E id \in TodoIds, data \in SelectionTodoUpdates :
       updateTodoInActiveProject(id, data)
  \/ \E e \in EntriesOf(SelectionTemplates, {Undef}) : importFromJSON(<<e>>)
  \/ importExported
  \/ importInvalidJSON
  \/ importEntry

SelectionSpec == Init /\ [][SelectionNext]_vars

(***************************************************************************)
(* Merge: what an imported entry does to the project it matches            *)
(***************************************************************************)
\* texts a file carries where the source expects something else
SBogus == <<"b","o","g","u","s">>
\* a date text new Date() reads as the time value 5
SLater == <<"T","5">>

\* an identifier a file carries as a number
IdSeven == Num(7)

MergeTemplates ==
  { [BaseData EXCEPT !.name = Str(NBravo), !.finishDate = Str(SLater),
                     !.hasFinishDate = TRUE, !.cost = Num(3)],
    [NoData EXCEPT !.name = Str(DefaultName), !.description = Str(TNotes)],
    [NoData EXCEPT !.status = Str(SBogus)],
    [NoData EXCEPT !.finishDate = Str(SBogus), !.hasFinishDate = TRUE,
                   !.description = Num(5), !.cost = Str(TNotes),
                   !.iconBg = Num(5)] }

MergeNext ==
  \/ \E id \in ProjectIds : openDetails(id, TRUE)
  \/ \E e \in EntriesOf(MergeTemplates, {Undef, IdSeven}) : importFromJSON(<<e>>)
  \/ importEntry

MergeSpec == Init /\ [][MergeNext]_vars

(***************************************************************************)
(* Update: partial updates of a project through the coordinator            *)
(***************************************************************************)
UpdateCreates == { [BaseData EXCEPT !.name = Str(NBravo)] }

\* Partial<IProject> objects: each carries some of the keys; the fourth
\* carries an id and todos, which IProject allows and update() never reads
UpdatePartials ==
  { [NoData EXCEPT !.name = Str(NAlphaVariant), !.cost = Num(3),
                   !.iconBg = Str(TBlank)],
    [NoData EXCEPT !.finishDate = Str(SLater), !.hasFinishDate = TRUE,
                   !.status = Str(SFinished)],
    [NoData EXCEPT !.finishDate = Null, !.hasFinishDate = TRUE],
    [NoData EXCEPT !.finishDate = Str(SBogus), !.hasFinishDate = TRUE,
                   !.id = IdX,
                   !.todos = Arr(<< [NoTodo EXCEPT !.title = Str(TNotes)] >>)],
    [NoData EXCEPT !.name = Str(NShort), !.userRole = Str(SEngineer)] }

UpdateNext ==
  \/ \E data \in UpdateCreates : newProject(data)
  \/ \E id \in ProjectIds, data \in UpdatePartials : updateProject(id, data)
  \/ \E id \in ProjectIds : openDetails(id, TRUE)
  \/ addTodoToActiveProject(Str(TNotes), Str(SPending))

UpdateSpec == Init /\ [][UpdateNext]_vars

(***************************************************************************)
(* Todo list: several todos in one project                                 *)
(***************************************************************************)
TPadded == <<" ","n","o","t","e","s">>

TodoListCreates == { [BaseData EXCEPT !.name = Str(NBravo), !.id = IdEmpty] }

TodoListTitles == {Str(TPadded), Str(TBlank)}

TodoListStatuses == {Str(SPending), Str(SDone)}

TodoListNext ==
  \/ \E data \in TodoListCreates : newProject(data)
  \/ \E id \in ProjectIds : openDetails(id, TRUE)
  \/ \E title \in TodoListTitles, status \in TodoListStatuses :
       addTodoWithin(title, status, MaxTodoList)
  \/ \E id \in TodoIds, data \in TodoUpdates : updateTodoInActiveProject(id, data)

TodoListSpec == Init /\ [][TodoListNext]_vars

(***************************************************************************)
(* Batch: files whose entries match by name, within and across files       *)
(***************************************************************************)
NBravoVariant == <<" ","b","R","A","V","O">>

\* the first file names one project twice, with two ids and in two spellings;
\* the second names the default project under an id no project has
BatchFiles ==
  { << [BaseData EXCEPT !.name = Str(NBravo), !.id = IdX],
       [BaseData EXCEPT !.name = Str(NBravoVariant), !.id = IdUnknown,
                        !.description = Str(TNotes)] >>,
    << [NoData EXCEPT !.name = Str(DefaultName), !.id = IdUnknown,
                      !.cost = Num(3)] >> }

BatchNext ==
  \/ \E id \in ProjectIds : deleteProject(id)
  \/ \E id \in ProjectIds : openDetails(id, TRUE)
  \/ \E batch \in BatchFiles : importFromJSON(batch)
  \/ importEntry

BatchSpec == Init /\ [][BatchNext]_vars

(***************************************************************************)
(* Entity: Project objects made and updated directly                       *)
(***************************************************************************)
NHospital == <<"H","o","s","p","i","t","a","l"," ","C","e","n","t","e","r">>
NBridge == <<"B","r","i","d","g","e">>
NEmpty == <<>>
NBlank == <<" "," ">>
NOneChar == <<"A">>
NSpaced == <<" ","B","i","g"," "," ","o","l","d","\t","s","p","a","n"," ">>

EntityNames == {NHospital, NBridge, NEmpty, NBlank, NOneChar, NSpaced}

\* new Project(data), the object kept in the list
constructProject(data) ==
  /\ Len(list) < MaxProjects
  /\ ~ConstructThrows(data)
  /\ \E now \in Times, colorIdx \in RandomIdx :
       list' = Append(list, Construct(data, now, colorIdx, UsedIds(list, Null)))
  /\ lastOp' = Outcome("constructor", "ok", Len(list) + 1, 0)
  /\ UNCHANGED <<activeProjectId, importQueue, importBase, activeCleared, view>>

\* project.update(data) on the i-th object of the list
projectUpdate(i, data) ==
  /\ \E now \in Times : list' = [list EXCEPT ![i] = update(@, data, now)]
  /\ lastOp' = Outcome("update", "ok", i, 0)
  /\ UNCHANGED <<activeProjectId, importQueue, importBase, activeCleared, view>>

\* the i-th object is dropped
projectDiscard(i) ==
  /\ list' = [j \in 1..(Len(list) - 1) |-> IF j < i THEN list[j] ELSE list[j + 1]]
  /\ lastOp' = Outcome("discard", "ok", i, 0)
  /\ UNCHANGED <<activeProjectId, importQueue, importBase, activeCleared, view>>

\* no coordinator: an empty collection of Project objects
EntityInit ==
  /\ list = <<>>
  /\ activeProjectId = Null
  /\ importQueue = <<>>
  /\ importBase = NoBase
  /\ activeCleared = FALSE
  /\ lastOp = Outcome("none", "ok", 0, 0)
  /\ view = NoView

EntityNext ==
  \/ \E n \in EntityNames : constructProject([BaseData EXCEPT !.name = Str(n)])
  \/ \E i \in 1..Len(list), n \in EntityNames :
       projectUpdate(i, [NoData EXCEPT !.name = Str(n)])
  \/ \E i \in 1..Len(list) : projectDiscard(i)

EntitySpec == EntityInit /\ [][EntityNext]_vars

(***************************************************************************)
(* Vocabulary of the claims                                                *)
(***************************************************************************)
\* a status, a role, a date an entry may validly carry
ValidStatus(x) == IsString(x) /\ x.v \in ProjectStatuses
ValidRole(x) == IsString(x) /\ x.v \in UserRoles
ValidDate(x) ==
  \/ x.t = "date" /\ x.v # -1
  \/ IsString(x) /\ ParseTime(x.v) # -1
NonBlankText(x) == IsString(x) /\ Trim(x.v) # <<>>

(***************************************************************************)
(* Claims about names (checked under NamesSpec)                            *)
(***************************************************************************)
\* C1: no two projects of the list have names that are equal after trimming
\* and lower-casing, in every reachable state.
C1_NamesUnique ==
  \A i, j \in 1..Len(list) :
    i # j => ToLowerCase(Trim(list[i].name.v)) # ToLowerCase(Trim(list[j].name.v))

\* C2: every project of the list has a trimmed name of at least 5 characters,
\* in every reachable state.
C2_NamesLongEnough ==
  \A i \in 1..Len(list) : Len(Trim(list[i].name.v)) >= 5

\* the trimmed name of a creation input (an absent name reads as "")
TrimmedNameOf(data) == Trim(IF IsString(data.name) THEN data.name.v ELSE <<>>)

\* some project of l other than the one at index skip carries the name n,
\* compared after trimming and lower-casing
NameHeldBy(l, n, skip) ==
  \E i \in 1..Len(l) :
    i # skip /\ ToLowerCase(Trim(l[i].name.v)) = ToLowerCase(Trim(n))

\* C4: newProject throws a validation error exactly when the trimmed name has
\* fewer than 5 characters or equals, trimmed and lower-cased, the name of a
\* project already in the list; when it throws, list and selection are unchanged.
C4_CreateRejectsExactly ==
  [][\A data \in NamesCreates :
       newProject(data) =>
         /\ (lastOp'.res \in {"NameTooShort", "NameInUse"})
              <=> (Len(TrimmedNameOf(data)) < 5
                   \/ NameHeldBy(list, TrimmedNameOf(data), 0))
         /\ lastOp'.res \in {"NameTooShort", "NameInUse"}
              => list' = list /\ activeProjectId' = activeProjectId]_vars

\* C4 witness: a creation was rejected because its name is held by a project of
\* the list, while a project is selected.
C4_Witness ==
  /\ lastOp.op = "newProject" /\ lastOp.res = "NameInUse"
  /\ activeProjectId # Null
  /\ \E i \in 1..Len(list) : list[i].name.v = NAlpha

\* C5: a creation input with a trimmed name of at least 5 characters that
\* collides with no project succeeds, appends exactly one project at the end,
\* and getProject(returned.id) and getProjectByName(returned.name) return it.
C5_CreatedIsFindable ==
  [][\A data \in NamesCreates :
       (/\ newProject(data)
        /\ Len(TrimmedNameOf(data)) >= 5
        /\ ~NameHeldBy(list, TrimmedNameOf(data), 0))
       => /\ lastOp'.res = "ok"
          /\ Len(list') = Len(list) + 1
          /\ SubSeq(list', 1, Len(list)) = list
          /\ getProject(list', list'[Len(list')].id) = Len(list')
          /\ getProjectByName(list', list'[Len(list')].name.v) = Len(list')]_vars

\* C6: updateProject with a name throws a validation error when the trimmed new
\* name is shorter than 5 characters or is held by a different project, and then
\* nothing changes; a rename to a case variant of the project's own name, held
\* by no other project, is not rejected.
C6_RenameRejects ==
  [][\A id \in ProjectIds, data \in NamesUpdates :
       (updateProject(id, data) /\ getProject(list, id) # 0 /\ IsString(data.name))
       => /\ (Len(Trim(data.name.v)) < 5
              \/ NameHeldBy(list, data.name.v, getProject(list, id)))
             => /\ lastOp'.res \in {"NameTooShort", "NameInUse"}
                /\ list' = list
                /\ activeProjectId' = activeProjectId
          /\ (/\ Len(Trim(data.name.v)) >= 5
              /\ ToLowerCase(Trim(data.name.v))
                   = ToLowerCase(Trim(list[getProject(list, id)].name.v))
              /\ ~NameHeldBy(list, data.name.v, getProject(list, id)))
             => lastOp'.res = "ok"]_vars

\* C19: the ids of the projects of the list are pairwise distinct, in every
\* reachable state.
C19_IdsDistinct ==
  \A i, j \in 1..Len(list) : i # j => list[i].id # list[j].id

(***************************************************************************)
(* Claims about import (checked under ImportSpec)                          *)
(***************************************************************************)
\* C3: importing the exact output of an export taken in a state leaves that
\* state unchanged: same list (length, order, every field and todo of every
\* project) and same selection.
C3_ReimportChangesNothing ==
  (importBase.set /\ Idle)
    => (list = importBase.list /\ activeProjectId = importBase.active)

\* C7: an entry merged into an existing project replaces that project's todos
\* by exactly the supplied sequence when it supplies one, and leaves them
\* unchanged when it supplies none.
C7_TodosFullyReplaced ==
  [][(importEntry /\ lastOp'.res = "updated")
       => LET incoming == Head(importQueue)
              idx == lastOp'.idx
          IN /\ incoming.todos.t = "array"
                  => list'[idx].todos = incoming.todos.v
             /\ incoming.todos.t # "array"
                  => list'[idx].todos = list[idx].todos]_vars

\* C7 witness: an entry was merged into a project that had todos and the
\* project has none afterwards (the entry supplied an empty sequence).
C7_Witness ==
  /\ lastOp.op = "importEntry" /\ lastOp.res = "updated"
  /\ lastOp.n > 0
  /\ list[lastOp.idx].todos = <<>>

\* no project of l carries the id or the name of the entry
MatchesNothing(l, incoming) ==
  /\ \A i \in 1..Len(l) : ~StrictEq(l[i].id, incoming.id)
  /\ ~NameHeldBy(l, TrimmedNameOf(incoming), 0)

\* C8: an entry that matches no project and whose trimmed name has fewer than
\* 5 characters is skipped without an error: list and selection are unchanged
\* (what earlier entries did stays) and the loop goes on with the next entry.
C8_ShortNewEntrySkipped ==
  [][(/\ importEntry
      /\ ~TrimThrows(Head(importQueue).name)
      /\ MatchesNothing(list, Head(importQueue))
      /\ Len(TrimmedNameOf(Head(importQueue))) < 5)
       => /\ lastOp'.res = "skipped"
          /\ list' = list
          /\ activeProjectId' = activeProjectId
          /\ importQueue' = Tail(importQueue)]_vars

\* C8 witness: the second entry of the three-entry file was skipped and the
\* third one is still to be processed.
C8_Witness ==
  /\ lastOp.op = "importEntry" /\ lastOp.res = "skipped"
  /\ Len(importQueue) = 1
  /\ list[1].name.v = DefaultName /\ list[1].todos = <<>>

\* the todo out is the normal form of the raw todo in
NormalizedFrom(out, raw) ==
  /\ NonBlankText(out.id)
  /\ NonBlankText(raw.id) => out.id = raw.id
  /\ ~IsNullish(out.status)
  /\ IsNullish(raw.status) => out.status = Str(SPending)
  /\ IsString(out.title) /\ Trim(out.title.v) = out.title.v
  /\ ~IsString(raw.title) => out.title = Str(<<>>)
  /\ IsString(out.createdAt) /\ IsString(out.updatedAt)

\* C16: after an entry that supplies todos was merged into a project or made a
\* new project, every todo of that project is the normal form of the supplied
\* one at its place: a non-empty string id (the supplied one if it is one), a
\* status (pending if none was supplied), a trimmed string title (empty if the
\* supplied one is no string) and both timestamps.
C16_ImportedTodosNormalized ==
  [][(/\ importEntry
      /\ lastOp'.res \in {"updated", "created"}
      /\ Head(importQueue).todos.t = "array")
       => LET supplied == Head(importQueue).todos.v
              todos == list'[lastOp'.idx].todos
          IN /\ Len(todos) = Len(supplied)
             /\ \A j \in 1..Len(supplied) :
                  NormalizedFrom(todos[j], supplied[j])]_vars

(***************************************************************************)
(* Claims about todos and the selection (checked under TodoSpec)           *)
(***************************************************************************)
\* C9: addTodoToActiveProject with a title that is empty after trimming throws
\* a validation error and adds no todo when a project is selected; when none is
\* selected it returns without an error and changes nothing, whatever the title.
C9_EmptyTitleRejected ==
  [][\A title \in TodoTitles :
       addTodoToActiveProject(title, Str(SPending))
       => /\ (activeProjectId # Null /\ Trim(title.v) = <<>>)
               => (lastOp'.res = "EmptyTitle" /\ list' = list)
          /\ activeProjectId = Null
               => /\ lastOp'.res = "noop"
                  /\ list' = list
                  /\ activeProjectId' = activeProjectId]_vars

\* C10: deleting the active project resets the selection, and from then on, until
\* an openDetails on a project of the list succeeds, the selection stays reset
\* and no addTodoToActiveProject or updateTodoInActiveProject changes anything.
C10_NoActiveAfterDelete ==
  [][/\ \A id \in ProjectIds :
          (deleteProject(id) /\ getProject(list, id) # 0
             /\ StrictEq(activeProjectId, id))
          => (activeProjectId' = Null /\ activeCleared')
     /\ activeCleared
          => /\ activeProjectId = Null
             /\ lastOp'.op \in {"addTodoToActiveProject", "updateTodoInActiveProject"}
                  => (list' = list /\ activeProjectId' = Null)
             /\ activeProjectId' # Null
                  => /\ lastOp'.op = "openDetails" /\ lastOp'.res = "ok"
                     /\ getProject(list, activeProjectId') # 0]_vars

\* C10 witness: the active project was deleted, and a later
\* updateTodoInActiveProject returned without touching anything.
C10_Witness ==
  /\ activeCleared
  /\ lastOp.op = "updateTodoInActiveProject" /\ lastOp.res = "noop"
  /\ activeProjectId = Null
  /\ list # <<>>

\* C20: no todo of any project has a title that is empty after trimming, in
\* every state reached by addTodoToActiveProject and updateTodoInActiveProject
\* calls.
C20_TodoTitlesNonEmpty ==
  \A i \in 1..Len(list) : \A j \in 1..Len(list[i].todos) :
    NonBlankText(list[i].todos[j].title)

(***************************************************************************)
(* Claims about the selection (checked under SelectionSpec)                *)
(***************************************************************************)
\* the step changes the selection in one of the two ways the selection has:
\* a successful openDetails on a project of the list, or the deletion of the
\* selected project
SelectionChangeAllowed ==
  \/ /\ lastOp'.op = "openDetails" /\ lastOp'.res = "ok"
     /\ getProject(list, activeProjectId') # 0
  \/ /\ lastOp'.op = "deleteProject"
     /\ activeProjectId' = Null
     /\ getProject(list, activeProjectId) # 0
     /\ getProject(list', activeProjectId) = 0

\* C11: the selection starts as no-active; openDetails(id) with id in the list
\* (and the details page in the document) sets it to id; deleteProject(id) with
\* id the current selection resets it; and no step changes it in any other way,
\* so every other operation leaves it as it is.
C11_SelectionTransitions ==
  /\ activeProjectId = Null
  /\ [][/\ \A id \in ProjectIds :
            (openDetails(id, TRUE) /\ getProject(list, id) # 0)
            => activeProjectId' = id
        /\ \A id \in ProjectIds :
            (deleteProject(id) /\ activeProjectId = id) => activeProjectId' = Null
        /\ activeProjectId' # activeProjectId => SelectionChangeAllowed]_vars

\* C11 as stated: as C11_SelectionTransitions, but openDetails(id) with id in
\* the list sets the selection to id whether or not the details page is in the
\* document.
C11_SelectionTransitionsAsStated ==
  /\ activeProjectId = Null
  /\ [][/\ \A id \in ProjectIds, hasPages \in BOOLEAN :
            (openDetails(id, hasPages) /\ getProject(list, id) # 0)
            => activeProjectId' = id
        /\ \A id \in ProjectIds :
            (deleteProject(id) /\ activeProjectId = id) => activeProjectId' = Null
        /\ activeProjectId' # activeProjectId => SelectionChangeAllowed]_vars

\* C11 witness: a project was selected, every kind of operation that must leave
\* the selection alone ran on it (it carries a todo), and its deletion has just
\* reset the selection.
C11_Witness ==
  /\ lastOp.op = "deleteProject" /\ lastOp.res = "deletedActive"
  /\ activeProjectId = Null
  /\ activeCleared

\* no project of the list has the id
NoSuchProject(id) == \A i \in 1..Len(list) : list[i].id # id

\* the selected project exists and none of its todos has the id
NoSuchTodoInActive(id) ==
  /\ getActiveProject(list, activeProjectId) # 0
  /\ \A j \in 1..Len(list[getActiveProject(list, activeProjectId)].todos) :
       list[getActiveProject(list, activeProjectId)].todos[j].id # id

\* the step raised no error and left the list and the selection as they were
SilentlyNothing ==
  /\ lastOp'.res \in {"noop", "notFound"}
  /\ list' = list
  /\ activeProjectId' = activeProjectId

\* C14: updateProject, deleteProject and openDetails with an id no project of
\* the list has, and updateTodoInActiveProject with an id no todo of the active
\* project has, raise no error and leave the list (every project's fields and
\* todos) and the selection unchanged.
C14_UnknownIdsDoNothing ==
  [][/\ \A id \in ProjectIds, data \in SelectionUpdates :
          (updateProject(id, data) /\ NoSuchProject(id)) => SilentlyNothing
     /\ \A id \in ProjectIds :
          (deleteProject(id) /\ NoSuchProject(id)) => SilentlyNothing
     /\ \A id \in ProjectIds, hasPages \in BOOLEAN :
          (openDetails(id, hasPages) /\ NoSuchProject(id)) => SilentlyNothing
     /\ \A id \in TodoIds, data \in SelectionTodoUpdates :
          (updateTodoInActiveProject(id, data) /\ NoSuchTodoInActive(id))
          => SilentlyNothing]_vars

\* C14 witness: updateTodoInActiveProject was called with an id that no todo of
\* the active project has, while that project has a todo.
C14_Witness ==
  /\ lastOp.op = "updateTodoInActiveProject" /\ lastOp.res = "notFound"
  /\ lastOp.n > 0
  /\ list[lastOp.idx].todos[1].status = Str(SPending)

(***************************************************************************)
(* Claims about the entity (checked under EntitySpec)                      *)
(***************************************************************************)
\* index of the first whitespace character of c, 0 if there is none
FirstSpaceIn(c) ==
  IF \E k \in 1..Len(c) : IsSpace(c[k])
  THEN CHOOSE k \in 1..Len(c) :
         IsSpace(c[k]) /\ \A j \in 1..(k - 1) : ~IsSpace(c[j])
  ELSE 0

\* index of the first character of c after position k that is no whitespace
NextWordIn(c, k) ==
  CHOOSE m \in (k + 1)..Len(c) :
    ~IsSpace(c[m]) /\ \A j \in (k + 1)..(m - 1) : IsSpace(c[j])

\* the initials the claim gives a name: "--" when it is empty after trimming,
\* the first characters of its first two words when it has two or more, else
\* its first two characters (the whole name when it has one character only)
InitialsAsClaimed(name) ==
  LET c == Trim(name)
  IN IF c = <<>> THEN <<"-", "-">>
     ELSE IF FirstSpaceIn(c) # 0 THEN <<c[1], c[NextWordIn(c, FirstSpaceIn(c))]>>
     ELSE IF Len(c) = 1 THEN c
     ELSE <<c[1], c[2]>>

\* C18: the initials on the card of every project are the ones the claim gives
\* its name; "Hospital Center" gives "HC" and "Bridge" gives "Br".
C18_Initials ==
  \A i \in 1..Len(list) :
    /\ list[i].ui.initials = InitialsAsClaimed(list[i].name.v)
    /\ list[i].name.v = NHospital => list[i].ui.initials = <<"H", "C">>
    /\ list[i].name.v = NBridge => list[i].ui.initials = <<"B", "r">>

\* C18 witness: a project named "Hospital Center" with the initials HC beside
\* one whose name is empty, with the initials "--".
C18_Witness ==
  /\ Len(list) = 2
  /\ list[1].name.v = NHospital /\ list[1].ui.initials = <<"H", "C">>
  /\ list[2].name.v = <<>> /\ list[2].ui.initials = <<"-", "-">>

(***************************************************************************)
(* Claims about merged entries (checked under MergeSpec)                   *)
(***************************************************************************)
\* C12: when an entry is merged into an existing project, every non-todo field
\* whose value in the entry is absent, of the wrong type or invalid keeps the
\* value the project had.
C12_InvalidFieldsKeepExisting ==
  [][(importEntry /\ lastOp'.res = "updated")
       => LET e == Head(importQueue)
              old == list[lastOp'.idx]
              new == list'[lastOp'.idx]
          IN /\ ~NonBlankText(e.name) => new.name = old.name
             /\ ~IsString(e.description) => new.description = old.description
             /\ ~ValidStatus(e.status) => new.status = old.status
             /\ ~ValidRole(e.userRole) => new.userRole = old.userRole
             /\ ~ValidDate(e.finishDate) => new.finishDate = old.finishDate
             /\ ~IsNumber(e.cost) => new.cost = old.cost
             /\ ~IsNumber(e.progress) => new.progress = old.progress
             /\ ~NonBlankText(e.iconBg) => new.iconBg = old.iconBg]_vars

\* C13: an entry that carries the id of a project X of the list and the name
\* (trimmed, lower-cased) of another project Y is merged into a project with
\* that id and leaves Y as it is; and an entry is merged by its name only when
\* no project of the list has its id.
C13_IdMatchPreferred ==
  [][importEntry
       => LET e == Head(importQueue)
              idx == lastOp'.idx
              hasId == \E i \in 1..Len(list) : list[i].id = e.id
              namesakes == {y \in 1..Len(list) :
                              /\ NonBlankText(e.name)
                              /\ list[y].id # e.id
                              /\ NormName(list[y].name.v) = NormName(e.name.v)}
          IN /\ (hasId /\ namesakes # {})
                  => /\ lastOp'.res = "updated"
                     /\ list[idx].id = e.id
                     /\ \A y \in namesakes : list'[y] = list[y]
             /\ (lastOp'.res = "updated" /\ list[idx].id # e.id) => ~hasId]_vars

\* C15: every project of the list has a status that is one of pending, active,
\* finished, in every reachable state.
C15_StatusInRange ==
  \A i \in 1..Len(list) : ValidStatus(list[i].status)

(***************************************************************************)
(* Claims about the rendering (checked under NamesSpec)                    *)
(***************************************************************************)
\* C17: no rendering is stale: the card of every project shows the project's
\* current name, description, status, role, cost and progress, and while a
\* project is selected the panel shows that project's current fields and the
\* rendered todo list is that project's current todo sequence.
C17_NoStaleRendering ==
  /\ \A i \in 1..Len(list) : list[i].ui = CardOf(list[i])
  /\ (activeProjectId # Null /\ getProject(list, activeProjectId) # 0)
       => view = Rendered(list[getProject(list, activeProjectId)])

(***************************************************************************)
(* Claims about partial updates (checked under UpdateSpec)                 *)
(***************************************************************************)
\* C21: a successful updateProject(id, partial) leaves unchanged every field
\* whose key is absent from the partial, the project's id, its todos, its
\* position in the list and every other project; a present name, description,
\* status, role, cost or parseable finishDate becomes the project's; and a
\* finishDate key present with a null or unparseable value sets finishDate to
\* the current time.
C21_UpdateChangesOnlyPresent ==
  [][\A id \in ProjectIds, data \in UpdatePartials :
       (updateProject(id, data) /\ lastOp'.res = "ok")
         => LET idx == lastOp'.idx
                old == list[idx]
                new == list'[idx]
            IN /\ Len(list') = Len(list)
               /\ \A j \in 1..Len(list) : j # idx => list'[j] = list[j]
               /\ new.id = old.id
               /\ new.todos = old.todos
               /\ data.name = Undef => new.name = old.name
               /\ data.description = Undef => new.description = old.description
               /\ data.status = Undef => new.status = old.status
               /\ data.userRole = Undef => new.userRole = old.userRole
               /\ data.cost = Undef => new.cost = old.cost
               /\ data.progress = Undef => new.progress = old.progress
               /\ data.iconBg = Undef => new.iconBg = old.iconBg
               /\ ~data.hasFinishDate => new.finishDate = old.finishDate
               /\ IsString(data.name) => new.name = Str(Trim(data.name.v))
               /\ IsString(data.description)
                    => new.description = Str(Trim(data.description.v))
               /\ ValidStatus(data.status) => new.status = data.status
               /\ ValidRole(data.userRole) => new.userRole = data.userRole
               /\ IsNumber(data.cost) => new.cost = data.cost
               /\ (data.hasFinishDate /\ ValidDate(data.finishDate))
                    => new.finishDate = normalizeDate(data.finishDate, 0)
               /\ (data.hasFinishDate /\ ~ValidDate(data.finishDate))
                    => new.finishDate \in {DateV(now) : now \in Times}]_vars

\* the second of two projects, holding a todo, has taken a name, a cost, a
\* status and a finish date from partial updates
C21_Witness ==
  /\ lastOp.op = "updateProject" /\ lastOp.res = "ok" /\ lastOp.idx = 2
  /\ Len(list) = 2
  /\ list[2].name = Str(Trim(NAlphaVariant)) /\ list[2].cost = Num(3)
  /\ list[2].status = Str(SFinished) /\ list[2].finishDate = DateV(5)
  /\ list[2].todos # <<>>

(***************************************************************************)
(* Claims about the todo sequence (checked under TodoListSpec)             *)
(***************************************************************************)
\* C22: addTodoToActiveProject with a title that is not empty after trimming,
\* while a project of the list is selected, appends exactly one todo at the end
\* of that project's todos, keeps the todos it had in their order, gives the new
\* todo an id no todo of the project has, the trimmed title, the given status
\* and createdAt equal to updatedAt, and changes no other project.
C22_AddTodoAppendsOne ==
  [][\A title \in TodoListTitles, status \in TodoListStatuses :
       (/\ addTodoWithin(title, status, MaxTodoList)
        /\ Trim(title.v) # <<>>
        /\ activeProjectId # Null
        /\ getProject(list, activeProjectId) # 0)
       => LET idx == getProject(list, activeProjectId)
              old == list[idx].todos
              new == list'[idx].todos
          IN /\ Len(list') = Len(list)
             /\ Len(new) = Len(old) + 1
             /\ SubSeq(new, 1, Len(old)) = old
             /\ \A j \in 1..Len(old) : old[j].id # new[Len(new)].id
             /\ new[Len(new)].title = Str(Trim(title.v))
             /\ new[Len(new)].status = status
             /\ new[Len(new)].createdAt = new[Len(new)].updatedAt
             /\ \A k \in 1..Len(list) : k # idx => list'[k] = list[k]]_vars

C24_SelectionInList ==
  \/ activeProjectId = Null
  \/ \E i \in 1..Len(list) : list[i].id = activeProjectId

\* a project other than the selected one has just been deleted, and the
\* selection still names the project that is left
C24_Witness ==
  /\ lastOp.op = "deleteProject" /\ lastOp.res = "ok"
  /\ activeProjectId # Null
  /\ Len(list) = 1 /\ list[1].id = activeProjectId

(***************************************************************************)
(* Claims about entries that match by name (checked under BatchSpec)       *)
(***************************************************************************)
\* C25: an import entry that matches an existing project changes neither the
\* id of any project nor the order or the length of the list, and leaves the
\* other projects as they are, also when it matches by name and carries a
\* different id.
C25_MergeKeepsIdentity ==
  [][(importEntry /\ lastOp'.res = "updated")
       => /\ Len(list') = Len(list)
          /\ \A j \in 1..Len(list) : list'[j].id = list[j].id
          /\ \A j \in 1..Len(list) : j # lastOp'.idx => list'[j] = list[j]]_vars

\* the default project took the cost of an entry that named it and carried
\* another id, and kept its own id
C25_Witness ==
  /\ lastOp.op = "importEntry" /\ lastOp.res = "updated" /\ lastOp.idx = 1
  /\ list[1].name = Str(DefaultName) /\ list[1].cost = Num(3)
  /\ list[1].id # IdUnknown

\* C26: the merge loop never appends a project whose trimmed, lower-cased name
\* is that of a project of the list, projects appended by earlier entries of
\* the same file included: an entry that has such a name is merged into a
\* project, and when no project has its id, into the first project of that name.
C26_ImportNeverDuplicatesName ==
  [][importEntry
       => LET e == Head(importQueue)
              namesakes == {i \in 1..Len(list) :
                              /\ NonBlankText(e.name)
                              /\ NormName(list[i].name.v) = NormName(e.name.v)}
          IN /\ lastOp'.res = "created"
                  => /\ Len(list') = Len(list) + 1
                     /\ \A i \in 1..Len(list) :
                          NormName(list[i].name.v)
                            # NormName(list'[Len(list')].name.v)
             /\ namesakes # {}
                  => /\ lastOp'.res = "updated"
                     /\ Len(list') = Len(list)
                     /\ (\A i \in 1..Len(list) : list[i].id # e.id)
                          => /\ lastOp'.idx \in namesakes
                             /\ \A i \in namesakes : lastOp'.idx <= i]_vars

\* the second entry of a file was merged into the project its first entry
\* names: the project carries the id of the first entry and the spelling and
\* the description of the second
C26_Witness ==
  /\ lastOp.op = "importEntry" /\ lastOp.res = "updated"
  /\ importQueue = <<>>
  /\ list[lastOp.idx].id = IdX
  /\ list[lastOp.idx].name = Str(Trim(NBravoVariant))
  /\ list[lastOp.idx].description = Str(TNotes)
  /\ \A i \in 1..Len(list) :
       i # lastOp.idx => NormName(list[i].name.v) # NormName(NBravo)

====
